---- MODULE Spec2Model ----
(***************************************************************************)
(* NAPS2 helper bindings (src/src/bindings): every operation builds an     *)
(* argument vector, runs the helper executable once with                   *)
(* Command::output(), checks the exit status and decodes stdout.           *)
(*                                                                         *)
(* Byte strings (stdout, stderr) are sequences of chunks.  A chunk is one  *)
(* lexical unit of the text: a JSON punctuation mark, a JSON literal, a    *)
(* run of white space, a bare word, or one byte that is not valid UTF-8.   *)
(* A Rust String obtained from bytes is a sequence of chunks without       *)
(* invalid bytes.  JSON string literals are atomic: their escaping is not  *)
(* modelled.                                                               *)
(***************************************************************************)
EXTENDS Integers, Sequences, FiniteSets, TLC

\* helper_path: the client's helper executable; pc, op, args: the call in
\* progress, the operation and its inputs; argv: the arguments given to the
\* Command; spawns: how often the helper was started; output: what
\* cmd.output() returned; result: what the operation returned; codec: a value
\* of a response type on its way through serde_json::to_string and from_str;
\* main: the locals of the command-line entry point and what it printed last
VARIABLES helper_path, pc, op, args, argv, spawns, output, result, codec, main

vars == <<helper_path, pc, op, args, argv, spawns, output, result, codec, main>>

(***************************************************************************)
(* Bounds of the model.                                                    *)
(***************************************************************************)
\* longest image_paths slice a caller passes
MaxImages == 2
\* largest exit code the helper exits with
MaxExitCode == 1
\* most elements of a JSON array the helper writes
MaxItems == 2

(***************************************************************************)
(* Chunks of text.                                                         *)
(***************************************************************************)
Chunk(k, s, n) == [k |-> k, s |-> s, n |-> n]
P(c) == Chunk(c, "", 0)
LBrace == P("{")
RBrace == P("}")
LBracket == P("[")
RBracket == P("]")
Colon == P(":")
Comma == P(",")
TNull == P("null")
TTrue == P("true")
TFalse == P("false")
TStr(s) == Chunk("str", s, 0)
TNum(n) == Chunk("num", "", n)
Ws(s) == Chunk("ws", s, 0)
Word(s) == Chunk("word", s, 0)
\* one byte that is not valid UTF-8
BadByte == Chunk("byte", "\\xFF", 0)
\* U+FFFD REPLACEMENT CHARACTER
Replacement == Chunk("word", "\\uFFFD", 0)

\* String::from_utf8_lossy(bytes).to_string(): every invalid byte becomes
\* U+FFFD, everything else is kept.
FromUtf8Lossy(bytes) ==
    [i \in 1..Len(bytes) |-> IF bytes[i].k = "byte" THEN Replacement ELSE bytes[i]]

(***************************************************************************)
(* JSON values.                                                            *)
(***************************************************************************)
JV(t, b, n, s, a, o) == [t |-> t, b |-> b, n |-> n, s |-> s, a |-> a, o |-> o]
JNull == JV("null", FALSE, 0, "", <<>>, <<>>)
JBool(b) == JV("bool", b, 0, "", <<>>, <<>>)
JNum(n) == JV("num", FALSE, n, "", <<>>, <<>>)
JStr(s) == JV("str", FALSE, 0, s, <<>>, <<>>)
\* a: the elements
JArr(a) == JV("arr", FALSE, 0, "", a, <<>>)
\* o: the members, <<key, value>> in document order
JObj(o) == JV("obj", FALSE, 0, "", <<>>, o)

RECURSIVE Flatten(_)
Flatten(ss) == IF ss = <<>> THEN <<>> ELSE Head(ss) \o Flatten(Tail(ss))

\* ss joined with sep between consecutive elements
Join(ss, sep) ==
    Flatten([i \in 1..Len(ss) |-> IF i = 1 THEN ss[i] ELSE sep \o ss[i]])

\* The compact JSON text of a value, as serde_json::to_string and the helper
\* write it.
RECURSIVE WriteJson(_)
WriteJson(v) ==
    CASE v.t = "null" -> <<TNull>>
      [] v.t = "bool" -> IF v.b THEN <<TTrue>> ELSE <<TFalse>>
      [] v.t = "num" -> <<TNum(v.n)>>
      [] v.t = "str" -> <<TStr(v.s)>>
      [] v.t = "arr" ->
            <<LBracket>>
            \o Join([i \in 1..Len(v.a) |-> WriteJson(v.a[i])], <<Comma>>)
            \o <<RBracket>>
      [] v.t = "obj" ->
            <<LBrace>>
            \o Join([i \in 1..Len(v.o) |->
                        <<TStr(v.o[i][1]), Colon>> \o WriteJson(v.o[i][2])],
                    <<Comma>>)
            \o <<RBrace>>

(***************************************************************************)
(* serde_json::from_str, first half: the text to a JSON value.             *)
(***************************************************************************)
ParseOk(v, i) == [ok |-> TRUE, v |-> v, i |-> i, msg |-> ""]
ParseErr(msg) == [ok |-> FALSE, v |-> JNull, i |-> 0, msg |-> msg]

\* the first position from i on that holds no white space
SkipWs(ts, i) ==
    CHOOSE j \in i..(Len(ts) + 1) :
        /\ \A m \in i..(j - 1) : ts[m].k = "ws"
        /\ j = Len(ts) + 1 \/ ts[j].k # "ws"

RECURSIVE ParseValue(_, _), ParseElements(_, _, _), ParseMembers(_, _, _)

ParseValue(ts, i0) ==
    LET i == SkipWs(ts, i0) IN
    IF i > Len(ts) THEN ParseErr("EOF while parsing a value")
    ELSE LET t == ts[i] IN
         CASE t.k = "null" -> ParseOk(JNull, i + 1)
           [] t.k = "true" -> ParseOk(JBool(TRUE), i + 1)
           [] t.k = "false" -> ParseOk(JBool(FALSE), i + 1)
           [] t.k = "num" -> ParseOk(JNum(t.n), i + 1)
           [] t.k = "str" -> ParseOk(JStr(t.s), i + 1)
           [] t.k = "[" -> ParseElements(ts, i + 1, <<>>)
           [] t.k = "{" -> ParseMembers(ts, i + 1, <<>>)
           [] OTHER -> ParseErr("expected value")

\* called after the opening bracket (acc empty) or after a comma
ParseElements(ts, i0, acc) ==
    LET i == SkipWs(ts, i0) IN
    IF i > Len(ts) THEN ParseErr("EOF while parsing a list")
    ELSE IF ts[i].k = "]"
    THEN IF acc = <<>> THEN ParseOk(JArr(acc), i + 1)
         ELSE ParseErr("trailing comma")
    ELSE LET r == ParseValue(ts, i) IN
         IF ~r.ok THEN r
         ELSE LET j == SkipWs(ts, r.i) IN
              IF j > Len(ts) THEN ParseErr("EOF while parsing a list")
              ELSE IF ts[j].k = "," THEN ParseElements(ts, j + 1, Append(acc, r.v))
              ELSE IF ts[j].k = "]" THEN ParseOk(JArr(Append(acc, r.v)), j + 1)
              ELSE ParseErr("expected , or ]")

\* called after the opening brace (acc empty) or after a comma
ParseMembers(ts, i0, acc) ==
    LET i == SkipWs(ts, i0) IN
    IF i > Len(ts) THEN ParseErr("EOF while parsing an object")
    ELSE IF ts[i].k = "}"
    THEN IF acc = <<>> THEN ParseOk(JObj(acc), i + 1)
         ELSE ParseErr("trailing comma")
    ELSE IF ts[i].k # "str" THEN ParseErr("key must be a string")
    ELSE LET c == SkipWs(ts, i + 1) IN
         IF c > Len(ts) THEN ParseErr("EOF while parsing an object")
         ELSE IF ts[c].k # ":" THEN ParseErr("expected :")
         ELSE LET r == ParseValue(ts, c + 1) IN
              IF ~r.ok THEN r
              ELSE LET j == SkipWs(ts, r.i)
                       m == <<ts[i].s, r.v>>
                   IN IF j > Len(ts) THEN ParseErr("EOF while parsing an object")
                      ELSE IF ts[j].k = "," THEN ParseMembers(ts, j + 1, Append(acc, m))
                      ELSE IF ts[j].k = "}" THEN ParseOk(JObj(Append(acc, m)), j + 1)
                      ELSE ParseErr("expected , or }")

\* one JSON value and nothing but white space after it
ParseJson(ts) ==
    LET r == ParseValue(ts, 1) IN
    IF ~r.ok THEN r
    ELSE IF SkipWs(ts, r.i) <= Len(ts) THEN ParseErr("trailing characters")
    ELSE r

(***************************************************************************)
(* serde_json::from_str, second half: the JSON value to the Rust type, as  *)
(* the derived Deserialize implementations do it.  A Rust value is         *)
(* modelled as: String, a string; bool, a Boolean; usize, a natural;       *)
(* Vec<T>, a sequence; Option<String>, <<>> for None and <<s>> for         *)
(* Some(s); a struct, a record of its fields.                              *)
(***************************************************************************)
DeOk(v) == [ok |-> TRUE, v |-> v, msg |-> ""]
DeErr(msg) == [ok |-> FALSE, v |-> <<>>, msg |-> msg]

\* name: the Rust field; key: the JSON key (the serde rename, else the field
\* name); ty: the Rust type; skip_none: skip_serializing_if Option::is_none
Field(name, key, ty, skip_none) ==
    [name |-> name, key |-> key, ty |-> ty, skip_none |-> skip_none]

ScannerDeviceFields ==
    << Field("id", "Id", "String", FALSE),
       Field("name", "Name", "String", FALSE),
       Field("driver", "Driver", "String", FALSE) >>

ScanResultFields ==
    << Field("image_paths", "ImagePaths", "VecString", FALSE),
       Field("temp_directory", "TempDirectory", "String", FALSE) >>

JpegSaveResultFields ==
    << Field("success", "Success", "bool", FALSE),
       Field("directory", "Directory", "String", FALSE),
       Field("files", "Files", "VecString", FALSE),
       Field("count", "Count", "usize", FALSE),
       Field("error", "Error", "OptionString", TRUE) >>

\* no serde rename on this struct: the keys are the field names
OcrLanguageFields ==
    << Field("code", "code", "String", FALSE),
       Field("name", "name", "String", FALSE) >>

\* Vec<String>
DeVecString(v) ==
    IF v.t # "arr" THEN DeErr("invalid type: expected a sequence")
    ELSE IF \E i \in 1..Len(v.a) : v.a[i].t # "str"
    THEN DeErr("invalid type: expected a string")
    ELSE DeOk([i \in 1..Len(v.a) |-> v.a[i].s])

\* one value of the Rust type ty
DeField(ty, v) ==
    CASE ty = "String" ->
            IF v.t = "str" THEN DeOk(v.s)
            ELSE DeErr("invalid type: expected a string")
      [] ty = "bool" ->
            IF v.t = "bool" THEN DeOk(v.b)
            ELSE DeErr("invalid type: expected a boolean")
      [] ty = "usize" ->
            IF v.t # "num" THEN DeErr("invalid type: expected usize")
            ELSE IF v.n < 0 THEN DeErr("invalid value: expected usize")
            ELSE DeOk(v.n)
      [] ty = "VecString" -> DeVecString(v)
      [] ty = "OptionString" ->
            IF v.t = "null" THEN DeOk(<<>>)
            ELSE IF v.t = "str" THEN DeOk(<<v.s>>)
            ELSE DeErr("invalid type: expected a string")

Min(S) == CHOOSE x \in S : \A y \in S : x <= y

\* the index of the field with JSON key k, 0 when k is no key of the struct
FieldOfKey(fields, k) ==
    IF \E i \in 1..Len(fields) : fields[i].key = k
    THEN CHOOSE i \in 1..Len(fields) : fields[i].key = k
    ELSE 0

\* as MissingField, but an absent Option<String> is the empty string
MissingField_empty_string(field) ==
    IF field.ty = "OptionString" THEN DeOk(<<"">>)
    ELSE DeErr("missing field " \o field.key)

\* serde's missing_field: a field without member is None when it is an Option
\* and an error otherwise
MissingField(field) ==
    IF field.ty = "OptionString" THEN DeOk(<<>>)
    ELSE DeErr("missing field " \o field.key)

\* visit_map: the members in document order; an unknown key is skipped, a key
\* seen twice is an error; then the fields without member.
DeStructMap(fields, o) ==
    LET fi(i) == FieldOfKey(fields, o[i][1])
        dup(i) == fi(i) # 0 /\ \E j \in 1..(i - 1) : o[j][1] = o[i][1]
        bad(i) == fi(i) # 0 /\ (dup(i) \/ ~DeField(fields[fi(i)].ty, o[i][2]).ok)
        Bad == {i \in 1..Len(o) : bad(i)}
        has(f) == \E i \in 1..Len(o) : o[i][1] = fields[f].key
        Missing == {f \in 1..Len(fields) : ~has(f) /\ ~MissingField(fields[f]).ok}
        val(f) == IF has(f)
                  THEN DeField(fields[f].ty,
                               o[CHOOSE i \in 1..Len(o) : o[i][1] = fields[f].key][2]).v
                  ELSE MissingField(fields[f]).v
    IN IF Bad # {}
       THEN LET i == Min(Bad) IN
            IF dup(i) THEN DeErr("duplicate field " \o o[i][1])
            ELSE DeErr(DeField(fields[fi(i)].ty, o[i][2]).msg)
       ELSE IF Missing # {} THEN MissingField(fields[Min(Missing)])
       ELSE DeOk([n \in {fields[f].name : f \in 1..Len(fields)} |->
                    val(CHOOSE f \in 1..Len(fields) : fields[f].name = n)])

\* visit_seq: the elements are the fields in declaration order, every field
\* needs its element, and no element may follow the last field
DeStructSeq(fields, a) ==
    LET bad(f) == f > Len(a) \/ ~DeField(fields[f].ty, a[f]).ok
        Bad == {f \in 1..Len(fields) : bad(f)}
    IN IF Bad # {}
       THEN LET f == Min(Bad) IN
            IF f > Len(a) THEN DeErr("invalid length")
            ELSE DeErr(DeField(fields[f].ty, a[f]).msg)
       ELSE IF Len(a) > Len(fields) THEN DeErr("trailing characters")
       ELSE DeOk([n \in {fields[f].name : f \in 1..Len(fields)} |->
                    DeField(fields[CHOOSE f \in 1..Len(fields) : fields[f].name = n].ty,
                            a[CHOOSE f \in 1..Len(fields) : fields[f].name = n]).v])

\* a struct with derived Deserialize: serde_json hands a JSON object to
\* visit_map and a JSON array to visit_seq
DeStruct(fields, v) ==
    IF v.t = "obj" THEN DeStructMap(fields, v.o)
    ELSE IF v.t = "arr" THEN DeStructSeq(fields, v.a)
    ELSE DeErr("invalid type: expected struct")

\* Vec<struct>
DeVecStruct(fields, v) ==
    IF v.t # "arr" THEN DeErr("invalid type: expected a sequence")
    ELSE LET Bad == {i \in 1..Len(v.a) : ~DeStruct(fields, v.a[i]).ok} IN
         IF Bad # {} THEN DeErr(DeStruct(fields, v.a[Min(Bad)]).msg)
         ELSE DeOk([i \in 1..Len(v.a) |-> DeStruct(fields, v.a[i]).v])

\* serde_json::from_str::<T>(text)
FromStrVecStruct(fields, text) ==
    LET p == ParseJson(text) IN
    IF ~p.ok THEN DeErr(p.msg) ELSE DeVecStruct(fields, p.v)

FromStrStruct(fields, text) ==
    LET p == ParseJson(text) IN
    IF ~p.ok THEN DeErr(p.msg) ELSE DeStruct(fields, p.v)

FromStrVecString(text) ==
    LET p == ParseJson(text) IN
    IF ~p.ok THEN DeErr(p.msg) ELSE DeVecString(p.v)

(***************************************************************************)
(* The derived Serialize implementations and serde_json::to_string.        *)
(***************************************************************************)
SerField(ty, x) ==
    CASE ty = "String" -> JStr(x)
      [] ty = "bool" -> JBool(x)
      [] ty = "usize" -> JNum(x)
      [] ty = "VecString" -> JArr([i \in 1..Len(x) |-> JStr(x[i])])
      [] ty = "OptionString" -> IF x = <<>> THEN JNull ELSE JStr(x[1])

\* the fields in declaration order, without the skipped ones
RECURSIVE SerMembers(_, _)
SerMembers(fields, x) ==
    IF fields = <<>> THEN <<>>
    ELSE LET f == Head(fields) IN
         (IF f.skip_none /\ x[f.name] = <<>>
          THEN <<>>
          ELSE << <<f.key, SerField(f.ty, x[f.name])>> >>)
         \o SerMembers(Tail(fields), x)

SerStruct(fields, x) == JObj(SerMembers(fields, x))

ToStringStruct(fields, x) == WriteJson(SerStruct(fields, x))

(***************************************************************************)
(* The enums and the argument vectors.                                     *)
(***************************************************************************)
Drivers ==
    {"Driver::Default", "Driver::Apple", "Driver::Sane", "Driver::Escl",
     "Driver::Wia", "Driver::Twain"}

PaperSources == {"PaperSource::Flatbed", "PaperSource::Feeder", "PaperSource::Duplex"}

\* as Driver_to_string, but Wia is given the token of Twain
Driver_to_string_colliding(d) ==
    CASE d = "Driver::Default" -> "Default"
      [] d = "Driver::Apple" -> "Apple"
      [] d = "Driver::Sane" -> "Sane"
      [] d = "Driver::Escl" -> "Escl"
      [] d = "Driver::Wia" -> "Twain"
      [] d = "Driver::Twain" -> "Twain"

Driver_to_string(d) ==
    CASE d = "Driver::Default" -> "Default"
      [] d = "Driver::Apple" -> "Apple"
      [] d = "Driver::Sane" -> "Sane"
      [] d = "Driver::Escl" -> "Escl"
      [] d = "Driver::Wia" -> "Wia"
      [] d = "Driver::Twain" -> "Twain"

PaperSource_to_string(p) ==
    CASE p = "PaperSource::Flatbed" -> "Flatbed"
      [] p = "PaperSource::Feeder" -> "Feeder"
      [] p = "PaperSource::Duplex" -> "Duplex"

\* Option<T> over the set S: <<>> is None, <<x>> is Some(x)
Option(S) == {<<>>} \cup {<<x>> : x \in S}

Digits == <<"0", "1", "2", "3", "4", "5", "6", "7", "8", "9">>

\* u32::to_string: the decimal digits, no sign, no leading zero
RECURSIVE U32ToString(_)
U32ToString(n) ==
    IF n < 10 THEN Digits[n + 1]
    ELSE U32ToString(n \div 10) \o Digits[(n % 10) + 1]

\* a path whose bytes are not valid UTF-8, and what to_string_lossy makes of it
NonUtf8Path == "/scan\\xFF.pdf"
NonUtf8PathLossy == "/scan\\uFFFD.pdf"

\* Path::to_string_lossy
ToStringLossy(path) == IF path = NonUtf8Path THEN NonUtf8PathLossy ELSE path

\* cmd.args(["scan", "list-devices"]); if let Some(drv) = driver { cmd.arg(..) }
Args_get_devices_with_driver(driver) ==
    <<"scan", "list-devices">>
    \o (IF driver # <<>> THEN <<Driver_to_string(driver[1])>> ELSE <<>>)

\* as Args_scan_to_images, but the dpi is put before the driver and an absent
\* paper source is passed as an empty argument
Args_scan_to_images_misordered(device_id, driver, dpi, paper_source) ==
    <<"scan", "to-images", device_id>>
    \o <<U32ToString(dpi)>>
    \o (IF driver # <<>> THEN <<Driver_to_string(driver[1])>> ELSE <<>>)
    \o (IF paper_source # <<>> THEN <<PaperSource_to_string(paper_source[1])>> ELSE <<"">>)

Args_scan_to_images(device_id, driver, dpi, paper_source) ==
    <<"scan", "to-images", device_id>>
    \o (IF driver # <<>> THEN <<Driver_to_string(driver[1])>> ELSE <<>>)
    \o <<U32ToString(dpi)>>
    \o (IF paper_source # <<>> THEN <<PaperSource_to_string(paper_source[1])>> ELSE <<>>)

Args_export_pdf(output_path, image_paths) ==
    <<"pdf", "export", ToStringLossy(output_path)>> \o image_paths

Args_import_pdf(pdf_path) == <<"pdf", "import", ToStringLossy(pdf_path)>>

Args_save_as_jpeg(image_paths, output_dir) ==
    <<"pdf", "jpeg", output_dir>> \o image_paths

Args_get_languages == <<"ocr", "languages">>

Args_recognize(image_path, language) ==
    <<"ocr", "recognize", ToStringLossy(image_path), language>>

(***************************************************************************)
(* What the callers pass.                                                  *)
(***************************************************************************)
HelperPaths == {"./NAPS2Helper", "C:/naps2-rs/NAPS2Helper.exe"}
DeviceIds == {"dev1"}
Dpis == {75, 300}
ImageFiles == {"/a.png", "/b.png"}
Paths == {"/out.pdf", NonUtf8Path}
OutputDirs == {"/out"}
Languages == {"eng", "deu"}

\* the sequences over S of length at most n
SeqsUpTo(S, n) == UNION {[1..k -> S] : k \in 0..n}

ImageLists == SeqsUpTo(ImageFiles, MaxImages)

(***************************************************************************)
(* What the helper process does: std::process::Output, or the io::Error    *)
(* of a process that could not be started.                                 *)
(***************************************************************************)
Exited(code) == [signaled |-> FALSE, code |-> code]
\* killed by a signal: ExitStatus::code() is None
Signaled == [signaled |-> TRUE, code |-> 0]

ExitStatuses == {Exited(c) : c \in 0..MaxExitCode} \cup {Signaled}

\* as success, but every exit code counts as success
success_any_code(status) == ~status.signaled

\* ExitStatus::success
success(status) == ~status.signaled /\ status.code = 0

\* the JSON documents of the helper's command-line contract
HelperDevice(i) ==
    JObj(<< <<"Id", JStr(<<"dev1", "dev2", "dev3">>[i])>>,
            <<"Name", JStr(<<"Scanner A", "Scanner B", "Scanner C">>[i])>>,
            <<"Driver", JStr("Sane")>> >>)

HelperFile(i) == JStr(<<"/tmp/naps2/1.png", "/tmp/naps2/2.png", "/tmp/naps2/3.png">>[i])

HelperLanguage(i) ==
    JObj(<< <<"Code", JStr(<<"eng", "deu", "fra">>[i])>>,
            <<"Name", JStr(<<"English", "German", "French">>[i])>> >>)

HelperDeviceList(n) == JArr([i \in 1..n |-> HelperDevice(i)])
HelperStringList(n) == JArr([i \in 1..n |-> HelperFile(i)])
HelperLanguageList(n) == JArr([i \in 1..n |-> HelperLanguage(i)])

HelperScanResult(n) ==
    JObj(<< <<"ImagePaths", HelperStringList(n)>>,
            <<"TempDirectory", JStr("/tmp/naps2")>> >>)

HelperJpegSaved(n) ==
    JObj(<< <<"Success", JBool(TRUE)>>, <<"Directory", JStr("/out")>>,
            <<"Files", HelperStringList(n)>>, <<"Count", JNum(n)>> >>)

HelperJpegFailed ==
    JObj(<< <<"Success", JBool(FALSE)>>, <<"Directory", JStr("/out")>>,
            <<"Files", JArr(<<>>)>>, <<"Count", JNum(0)>>,
            <<"Error", JStr("disk full")>> >>)

ContractDocs ==
    UNION {{HelperDeviceList(n), HelperStringList(n), HelperLanguageList(n),
            HelperScanResult(n), HelperJpegSaved(n)} : n \in 0..MaxItems}
    \cup {HelperJpegFailed}

\* JSON documents that are well-formed JSON and not of the contract
OtherDocs ==
    { JNull,
      JStr("Hello World"),
      \* lower-case keys
      JArr(<<JObj(<< <<"code", JStr("eng")>>, <<"name", JStr("English")>> >>)>>),
      JArr(<<JObj(<< <<"id", JStr("dev1")>>, <<"name", JStr("Scanner A")>>,
                     <<"driver", JStr("Sane")>> >>)>>),
      \* a key is missing
      JArr(<<JObj(<< <<"Id", JStr("dev1")>>, <<"Name", JStr("Scanner A")>> >>)>>),
      JObj(<< <<"ImagePaths", HelperStringList(1)>> >>),
      \* a value of the wrong type
      JArr(<<JObj(<< <<"Id", JNum(1)>>, <<"Name", JStr("Scanner A")>>,
                     <<"Driver", JStr("Sane")>> >>)>>),
      JArr(<<JNum(1)>>),
      JObj(<< <<"Success", JBool(TRUE)>>, <<"Directory", JStr("/out")>>,
              <<"Files", JArr(<<>>)>>, <<"Count", JNum(-1)>> >>),
      \* objects written as arrays of their values
      JArr(<<JArr(<<JStr("dev1"), JStr("Scanner A"), JStr("Sane")>>)>>),
      JArr(<<JArr(<<JStr("eng"), JStr("English")>>)>>),
      JArr(<<HelperStringList(1), JStr("/tmp/naps2")>>),
      \* a key more, a key twice, a null Error
      JObj(<< <<"ImagePaths", HelperStringList(1)>>,
              <<"TempDirectory", JStr("/tmp/naps2")>>, <<"Pages", JNum(1)>> >>),
      JObj(<< <<"ImagePaths", HelperStringList(1)>>,
              <<"TempDirectory", JStr("/tmp/naps2")>>,
              <<"TempDirectory", JStr("/tmp/other")>> >>),
      JObj(<< <<"Success", JBool(TRUE)>>, <<"Directory", JStr("/out")>>,
              <<"Files", JArr(<<>>)>>, <<"Count", JNum(0)>>, <<"Error", JNull>> >>) }

\* what the helper writes to stdout
Stdouts ==
    {WriteJson(d) : d \in ContractDocs \cup OtherDocs}
    \cup {WriteJson(HelperDeviceList(1)) \o <<Ws("\n")>>,
          WriteJson(HelperScanResult(1)) \o <<BadByte>>,
          <<LBracket, LBrace, TStr("Id"), Colon, TStr("dev1")>>,
          <<LBracket, TStr("/tmp/naps2/1.png"), Comma, RBracket>>,
          <<Word("Hello"), Ws(" "), Word("World")>>,
          <<Word("Hello"), BadByte, Ws("\n")>>,
          <<>>}

\* what the helper writes to stderr
Stderrs ==
    {<<>>, <<Word("disk"), Ws(" "), Word("full")>>, <<Word("error:"), BadByte, Ws("\n")>>}

IoErrors == {"NotFound", "PermissionDenied"}

Outputs ==
    {[launched |-> FALSE, io_error |-> e, status |-> Signaled,
      stdout |-> <<>>, stderr |-> <<>>] : e \in IoErrors}
    \cup {[launched |-> TRUE, io_error |-> "", status |-> st,
           stdout |-> so, stderr |-> se] :
              st \in ExitStatuses, so \in Stdouts, se \in Stderrs}

NoOutput ==
    [launched |-> FALSE, io_error |-> "", status |-> Signaled,
     stdout |-> <<>>, stderr |-> <<>>]

(***************************************************************************)
(* Results: anyhow::Result<T>.                                             *)
(***************************************************************************)
NoResult ==
    [tag |-> "none", val |-> <<>>, ty |-> "", variant |-> "",
     msg |-> <<>>, context |-> <<>>]

Ok(v) ==
    [tag |-> "Ok", val |-> v, ty |-> "", variant |-> "",
     msg |-> <<>>, context |-> <<>>]

\* a variant of Naps2Error with its String
Naps2Error(variant, msg) ==
    [tag |-> "Err", val |-> <<>>, ty |-> "Naps2Error", variant |-> variant,
     msg |-> msg, context |-> <<>>]

HelperExecutionError(msg) == Naps2Error("HelperExecutionError", msg)

HelperOutputError(msg) == Naps2Error("HelperOutputError", msg)

\* format!("JSON parse error: {}", e)
JsonParseError(e) == <<Word("JSON parse error: "), Word(e)>>

\* format!("{:?}", path)
DebugPath(path) == "\"" \o path \o "\""

\* cmd.output().with_context(|| format!("Failed to execute helper at {:?}", ..))?
\* on Err(e): the io::Error e, wrapped in the context message; no Naps2Error
WithContext(io_error, path) ==
    [tag |-> "Err", val |-> <<>>, ty |-> "std::io::Error", variant |-> io_error,
     msg |-> <<>>,
     context |-> <<Word("Failed to execute helper at "), Word(DebugPath(path))>>]

\* the part every operation starts with: None when the helper ran and
\* succeeded, else the error the operation returns
Failure(path, out) ==
    IF ~out.launched THEN <<WithContext(out.io_error, path)>>
    ELSE IF ~success(out.status)
    THEN <<HelperExecutionError(FromUtf8Lossy(out.stderr))>>
    ELSE <<>>

\* serde_json::from_str(&stdout).map_err(|e| HelperOutputError(..))?; Ok(value)
Decoded(d) ==
    IF ~d.ok THEN HelperOutputError(JsonParseError(d.msg)) ELSE Ok(d.v)

Result_get_devices_with_driver(path, out) ==
    IF Failure(path, out) # <<>> THEN Failure(path, out)[1]
    ELSE Decoded(FromStrVecStruct(ScannerDeviceFields, FromUtf8Lossy(out.stdout)))

Result_scan_to_images(path, out) ==
    IF Failure(path, out) # <<>> THEN Failure(path, out)[1]
    ELSE Decoded(FromStrStruct(ScanResultFields, FromUtf8Lossy(out.stdout)))

\* Ok(()): stdout is not read
Result_export_pdf(path, out) ==
    IF Failure(path, out) # <<>> THEN Failure(path, out)[1]
    ELSE Ok("()")

Result_import_pdf(path, out) ==
    IF Failure(path, out) # <<>> THEN Failure(path, out)[1]
    ELSE Decoded(FromStrVecString(FromUtf8Lossy(out.stdout)))

Result_save_as_jpeg(path, out) ==
    IF Failure(path, out) # <<>> THEN Failure(path, out)[1]
    ELSE Decoded(FromStrStruct(JpegSaveResultFields, FromUtf8Lossy(out.stdout)))

Result_get_languages(path, out) ==
    IF Failure(path, out) # <<>> THEN Failure(path, out)[1]
    ELSE Decoded(FromStrVecStruct(OcrLanguageFields, FromUtf8Lossy(out.stdout)))

\* as Result_recognize, but stdout is parsed as a JSON string
Result_recognize_parsed(path, out) ==
    IF Failure(path, out) # <<>> THEN Failure(path, out)[1]
    ELSE LET p == ParseJson(FromUtf8Lossy(out.stdout)) IN
         IF ~p.ok THEN HelperOutputError(JsonParseError(p.msg))
         ELSE Decoded(DeField("String", p.v))

\* Ok(text): the decoded stdout
Result_recognize(path, out) ==
    IF Failure(path, out) # <<>> THEN Failure(path, out)[1]
    ELSE Ok(FromUtf8Lossy(out.stdout))

(***************************************************************************)
(* One call of an operation of a client.  pc: "idle", no call yet;         *)
(* "spawn", the Command is built; "check", cmd.output() has returned;      *)
(* "done", the operation has returned result.                              *)
(***************************************************************************)
\* the operations that decode stdout as JSON
JsonOps ==
    {"get_devices_with_driver", "scan_to_images", "import_pdf", "save_as_jpeg",
     "get_languages"}

\* the locals of main: pc, where main stands ("probe": at the head of the
\* loop over the drivers; "ask_scan", "ask_source", "ask_save": in a
\* read_line; "scan", "save": about to call the operation; "returned"); i: the
\* index of the driver the loop is at; probed: the drivers whose devices were
\* listed; last_op, last: the last operation called and its result; printed:
\* the lines printed by the last step; ret: what main returned
MainState(mpc, platform, i) ==
    [pc |-> mpc, platform |-> platform, i |-> i, probed |-> <<>>, devices |-> <<>>,
     paper_source |-> "", scan_result |-> [image_paths |-> <<>>, temp_directory |-> ""],
     argv |-> <<>>, last_op |-> "", last |-> NoResult, printed |-> <<>>,
     ret |-> "", stdin_failed |-> FALSE]

NoMain == MainState("none", "", 0)

NoCodec == [stage |-> "none", ty |-> "", value |-> <<>>, text |-> <<>>, back |-> DeErr("")]

\* Naps2Client::new(helper_path)
Init ==
    /\ helper_path \in HelperPaths
    /\ pc = "idle"
    /\ op = ""
    /\ args = <<>>
    /\ argv = <<>>
    /\ spawns = 0
    /\ output = NoOutput
    /\ result = NoResult
    /\ codec = NoCodec
    /\ main = NoMain

\* Each operation starts by building the Command: Command::new(&helper_path)
\* and the arguments.
Call_get_devices_with_driver(driver) ==
    /\ pc = "idle"
    /\ op' = "get_devices_with_driver"
    /\ args' = [driver |-> driver]
    /\ argv' = Args_get_devices_with_driver(driver)
    /\ pc' = "spawn"
    /\ UNCHANGED <<helper_path, spawns, output, result, codec, main>>

Call_scan_to_images(device_id, driver, dpi, paper_source) ==
    /\ pc = "idle"
    /\ op' = "scan_to_images"
    /\ args' = [device_id |-> device_id, driver |-> driver, dpi |-> dpi,
                paper_source |-> paper_source]
    /\ argv' = Args_scan_to_images(device_id, driver, dpi, paper_source)
    /\ pc' = "spawn"
    /\ UNCHANGED <<helper_path, spawns, output, result, codec, main>>

Call_export_pdf(output_path, image_paths) ==
    /\ pc = "idle"
    /\ op' = "export_pdf"
    /\ args' = [output_path |-> output_path, image_paths |-> image_paths]
    /\ argv' = Args_export_pdf(output_path, image_paths)
    /\ pc' = "spawn"
    /\ UNCHANGED <<helper_path, spawns, output, result, codec, main>>

Call_import_pdf(pdf_path) ==
    /\ pc = "idle"
    /\ op' = "import_pdf"
    /\ args' = [pdf_path |-> pdf_path]
    /\ argv' = Args_import_pdf(pdf_path)
    /\ pc' = "spawn"
    /\ UNCHANGED <<helper_path, spawns, output, result, codec, main>>

Call_save_as_jpeg(image_paths, output_dir) ==
    /\ pc = "idle"
    /\ op' = "save_as_jpeg"
    /\ args' = [image_paths |-> image_paths, output_dir |-> output_dir]
    /\ argv' = Args_save_as_jpeg(image_paths, output_dir)
    /\ pc' = "spawn"
    /\ UNCHANGED <<helper_path, spawns, output, result, codec, main>>

Call_get_languages ==
    /\ pc = "idle"
    /\ op' = "get_languages"
    /\ args' = <<>>
    /\ argv' = Args_get_languages
    /\ pc' = "spawn"
    /\ UNCHANGED <<helper_path, spawns, output, result, codec, main>>

Call_recognize(image_path, language) ==
    /\ pc = "idle"
    /\ op' = "recognize"
    /\ args' = [image_path |-> image_path, language |-> language]
    /\ argv' = Args_recognize(image_path, language)
    /\ pc' = "spawn"
    /\ UNCHANGED <<helper_path, spawns, output, result, codec, main>>

\* cmd.output(): the helper is started once and waited for, or cannot be
\* started
Output ==
    /\ pc = "spawn"
    /\ spawns' = spawns + 1
    /\ \E out \in Outputs : output' = out
    /\ pc' = "check"
    /\ UNCHANGED <<helper_path, op, args, argv, result, codec, main>>

\* The rest of each operation: it returns its result.
Return_get_devices_with_driver ==
    /\ pc = "check"
    /\ op = "get_devices_with_driver"
    /\ result' = Result_get_devices_with_driver(helper_path, output)
    /\ pc' = "done"
    /\ UNCHANGED <<helper_path, op, args, argv, spawns, output, codec, main>>

Return_scan_to_images ==
    /\ pc = "check"
    /\ op = "scan_to_images"
    /\ result' = Result_scan_to_images(helper_path, output)
    /\ pc' = "done"
    /\ UNCHANGED <<helper_path, op, args, argv, spawns, output, codec, main>>

\* as Return_export_pdf, but a failed attempt is tried once more
Return_export_pdf_retrying ==
    /\ pc = "check"
    /\ op = "export_pdf"
    /\ IF Result_export_pdf(helper_path, output).tag = "Err" /\ spawns < 2
       THEN pc' = "spawn" /\ result' = result
       ELSE pc' = "done" /\ result' = Result_export_pdf(helper_path, output)
    /\ UNCHANGED <<helper_path, op, args, argv, spawns, output, codec, main>>

Return_export_pdf ==
    /\ pc = "check"
    /\ op = "export_pdf"
    /\ result' = Result_export_pdf(helper_path, output)
    /\ pc' = "done"
    /\ UNCHANGED <<helper_path, op, args, argv, spawns, output, codec, main>>

Return_import_pdf ==
    /\ pc = "check"
    /\ op = "import_pdf"
    /\ result' = Result_import_pdf(helper_path, output)
    /\ pc' = "done"
    /\ UNCHANGED <<helper_path, op, args, argv, spawns, output, codec, main>>

Return_save_as_jpeg ==
    /\ pc = "check"
    /\ op = "save_as_jpeg"
    /\ result' = Result_save_as_jpeg(helper_path, output)
    /\ pc' = "done"
    /\ UNCHANGED <<helper_path, op, args, argv, spawns, output, codec, main>>

Return_get_languages ==
    /\ pc = "check"
    /\ op = "get_languages"
    /\ result' = Result_get_languages(helper_path, output)
    /\ pc' = "done"
    /\ UNCHANGED <<helper_path, op, args, argv, spawns, output, codec, main>>

Return_recognize ==
    /\ pc = "check"
    /\ op = "recognize"
    /\ result' = Result_recognize(helper_path, output)
    /\ pc' = "done"
    /\ UNCHANGED <<helper_path, op, args, argv, spawns, output, codec, main>>

Next ==
    \/ \E driver \in Option(Drivers) : Call_get_devices_with_driver(driver)
    \/ \E device_id \in DeviceIds, driver \in Option(Drivers), dpi \in Dpis,
          paper_source \in Option(PaperSources) :
            Call_scan_to_images(device_id, driver, dpi, paper_source)
    \/ \E output_path \in Paths, image_paths \in ImageLists :
            Call_export_pdf(output_path, image_paths)
    \/ \E pdf_path \in Paths : Call_import_pdf(pdf_path)
    \/ \E image_paths \in ImageLists, output_dir \in OutputDirs :
            Call_save_as_jpeg(image_paths, output_dir)
    \/ Call_get_languages
    \/ \E image_path \in Paths, language \in Languages :
            Call_recognize(image_path, language)
    \/ Output
    \/ Return_get_devices_with_driver
    \/ Return_scan_to_images
    \/ Return_export_pdf
    \/ Return_import_pdf
    \/ Return_save_as_jpeg
    \/ Return_get_languages
    \/ Return_recognize

Spec == Init /\ [][Next]_vars

(***************************************************************************)
(* The response types through serde_json: a value is encoded with          *)
(* to_string and the text is decoded with from_str.                        *)
(***************************************************************************)
ResponseTypes == {"ScannerDevice", "ScanResult", "JpegSaveResult", "OcrLanguage"}

FieldsOf(ty) ==
    CASE ty = "ScannerDevice" -> ScannerDeviceFields
      [] ty = "ScanResult" -> ScanResultFields
      [] ty = "JpegSaveResult" -> JpegSaveResultFields
      [] ty = "OcrLanguage" -> OcrLanguageFields

FileLists == SeqsUpTo(ImageFiles, MaxItems)

ValuesOf(ty) ==
    CASE ty = "ScannerDevice" ->
            [id : {"dev1", ""}, name : {"Scanner A", ""}, driver : {"Sane", "Escl"}]
      [] ty = "ScanResult" ->
            [image_paths : FileLists, temp_directory : {"/tmp/naps2", ""}]
      [] ty = "JpegSaveResult" ->
            [success : BOOLEAN, directory : {"/out"}, files : FileLists,
             count : 0..MaxItems, error : Option({"", "disk full"})]
      [] ty = "OcrLanguage" ->
            [code : {"eng", ""}, name : {"English", ""}]

InitCodec ==
    /\ helper_path \in HelperPaths
    /\ pc = "idle"
    /\ op = ""
    /\ args = <<>>
    /\ argv = <<>>
    /\ spawns = 0
    /\ output = NoOutput
    /\ result = NoResult
    /\ main = NoMain
    /\ \E ty \in ResponseTypes : \E x \in ValuesOf(ty) :
          codec = [stage |-> "value", ty |-> ty, value |-> x, text |-> <<>>,
                   back |-> DeErr("")]

\* serde_json::to_string(&value)
to_string ==
    /\ codec.stage = "value"
    /\ codec' = [codec EXCEPT !.stage = "encoded",
                              !.text = ToStringStruct(FieldsOf(codec.ty), codec.value)]
    /\ UNCHANGED <<helper_path, pc, op, args, argv, spawns, output, result, main>>

\* serde_json::from_str(&text)
from_str ==
    /\ codec.stage = "encoded"
    /\ codec' = [codec EXCEPT !.stage = "decoded",
                              !.back = FromStrStruct(FieldsOf(codec.ty), codec.text)]
    /\ UNCHANGED <<helper_path, pc, op, args, argv, spawns, output, result, main>>

NextCodec == to_string \/ from_str

SpecCodec == InitCodec /\ [][NextCodec]_vars

(***************************************************************************)
(* The command-line entry point: main probes every driver of the platform  *)
(* for devices and, for the first device found, offers a scan and a save   *)
(* of the scanned pages as JPEG.  Its steps end where it waits: for the    *)
(* helper process or for a line of standard input.                         *)
(***************************************************************************)
Platforms == {"windows", "other"}

\* cfg!(target_os = "windows")
MainHelperPath(platform) ==
    IF platform = "windows"
    THEN "C:/naps2-rs/csharp-helper/bin/Debug/net9.0-windows7.0/NAPS2Helper.exe"
    ELSE "./csharp-helper/bin/Debug/net8.0-macos/osx-arm64/NAPS2Helper.app/Contents/MacOS/NAPS2Helper"

MainDrivers(platform) ==
    IF platform = "windows"
    THEN <<"Driver::Default", "Driver::Wia", "Driver::Twain">>
    ELSE <<"Driver::Default", "Driver::Apple", "Driver::Sane", "Driver::Escl">>

\* the dpi main scans with
MainDpi == 300

\* Display of an anyhow::Error: the context when there is one, else the
\* message of the Naps2Error variant
Display(e) ==
    IF e.ty # "Naps2Error" THEN e.context
    ELSE CASE e.variant = "HelperExecutionError" ->
                <<Word("Failed to execute helper application: ")>> \o e.msg
           [] e.variant = "HelperOutputError" ->
                <<Word("Failed to parse helper application output: ")>> \o e.msg
           [] e.variant = "DeviceNotFoundError" -> <<Word("Device not found: ")>> \o e.msg
           [] e.variant = "ScanningError" -> <<Word("Scanning failed: ")>> \o e.msg
           [] e.variant = "PdfError" -> <<Word("PDF operation failed: ")>> \o e.msg
           [] e.variant = "OcrError" -> <<Word("OCR operation failed: ")>> \o e.msg

\* derive(Debug) of PaperSource
PaperSource_debug(p) ==
    CASE p = "PaperSource::Flatbed" -> "Flatbed"
      [] p = "PaperSource::Feeder" -> "Feeder"
      [] p = "PaperSource::Duplex" -> "Duplex"

\* stdin().read_line(&mut input): a line, nothing at the end of input, or an
\* io::Error (input that is not UTF-8)
StdinLines == {"y\n", " Y \n", "n\n", "", "1\n", "2\n", "3\n", "9\n"}

ReadLines ==
    {[ok |-> FALSE, line |-> ""]} \cup {[ok |-> TRUE, line |-> l] : l \in StdinLines}

\* str::trim
Trim(line) ==
    CASE line = "y\n" -> "y"
      [] line = " Y \n" -> "Y"
      [] line = "n\n" -> "n"
      [] line = "1\n" -> "1"
      [] line = "2\n" -> "2"
      [] line = "3\n" -> "3"
      [] line = "9\n" -> "9"
      [] OTHER -> line

\* str::to_lowercase
ToLowercase(x) == IF x = "Y" THEN "y" ELSE x

\* input.trim().to_lowercase() == "y"
SaysYes(line) == ToLowercase(Trim(line)) = "y"

\* match source_input.trim() { "1" => .., "2" => .., "3" => .., _ => Flatbed }
ChosenPaperSource(line) ==
    CASE Trim(line) = "1" -> "PaperSource::Flatbed"
      [] Trim(line) = "2" -> "PaperSource::Feeder"
      [] Trim(line) = "3" -> "PaperSource::Duplex"
      [] OTHER -> "PaperSource::Flatbed"

\* the lines main prints
Line(s) == <<Word(s)>>
TryingLine(driver) ==
    <<Word("\nTrying "), Word(Driver_to_string(driver)), Word(" driver:")>>
FoundLine(devices) ==
    <<Word("Found "), Word(U32ToString(Len(devices))), Word(" devices:")>>
DeviceLine(devices, n) ==
    <<Word("  "), Word(U32ToString(n)), Word(". "), Word(devices[n].name),
      Word(" (ID: "), Word(devices[n].id), Word(")")>>
ErrorLine(prefix, e) == <<Word(prefix)>> \o Display(e)

\* the devices after the first are only printed
RestOfDevices(devices) == [n \in 1..(Len(devices) - 1) |-> DeviceLine(devices, n + 1)]

\* main when the body of the loop is over for driver i: the locals of the body
\* are gone and the loop is at the next driver
NextDriver(m, lines) ==
    [m EXCEPT !.pc = "probe", !.i = m.i + 1, !.devices = <<>>, !.paper_source = "",
              !.scan_result = [image_paths |-> <<>>, temp_directory |-> ""],
              !.printed = lines]

\* read_line(..)? on Err: main returns the error
ReadFailed(m) ==
    [m EXCEPT !.pc = "returned", !.ret = "Err", !.stdin_failed = TRUE, !.printed = <<>>]

\* what the helper does in a run of main: every outcome of cmd.output(), less
\* the text the operations do not read (stdout after a failure, stderr after
\* a success)
MainOutputs ==
    {out \in Outputs :
        \/ ~out.launched
        \/ out.launched /\ success(out.status) /\ out.stderr = <<>>
        \/ out.launched /\ ~success(out.status) /\ out.stdout = <<>>}

InitMain ==
    /\ \E platform \in Platforms :
          /\ helper_path = MainHelperPath(platform)
          /\ main = MainState("probe", platform, 1)
    /\ pc = "idle"
    /\ op = ""
    /\ args = <<>>
    /\ argv = <<>>
    /\ spawns = 0
    /\ output = NoOutput
    /\ result = NoResult
    /\ codec = NoCodec

callVars == <<helper_path, pc, op, args, argv, spawns, output, result, codec>>

\* a loop that gives up at the first failed device listing
Main_probe_aborting ==
    /\ main.pc = "probe"
    /\ main.i <= Len(MainDrivers(main.platform))
    /\ \E out \in MainOutputs :
          LET driver == MainDrivers(main.platform)[main.i]
              r == Result_get_devices_with_driver(helper_path, out)
              m == [main EXCEPT !.probed = Append(main.probed, driver),
                                !.argv = Args_get_devices_with_driver(<<driver>>),
                                !.last_op = "get_devices_with_driver", !.last = r]
          IN main' =
                IF r.tag = "Err"
                THEN [m EXCEPT !.pc = "returned", !.ret = "Err",
                               !.printed = <<TryingLine(driver)>>]
                ELSE IF Len(r.val) = 0
                THEN NextDriver(m, <<TryingLine(driver), Line("No devices found")>>)
                ELSE [m EXCEPT !.pc = "ask_scan", !.devices = r.val,
                               !.printed = <<TryingLine(driver), FoundLine(r.val),
                                             DeviceLine(r.val, 1)>>]
    /\ UNCHANGED callVars

\* for driver in drivers: client.scan().get_devices_with_driver(Some(driver)),
\* up to the first read_line
Main_probe ==
    /\ main.pc = "probe"
    /\ main.i <= Len(MainDrivers(main.platform))
    /\ \E out \in MainOutputs :
          LET driver == MainDrivers(main.platform)[main.i]
              r == Result_get_devices_with_driver(helper_path, out)
              m == [main EXCEPT !.probed = Append(main.probed, driver),
                                !.argv = Args_get_devices_with_driver(<<driver>>),
                                !.last_op = "get_devices_with_driver", !.last = r]
          IN main' =
                IF r.tag = "Err"
                THEN NextDriver(m, <<TryingLine(driver), ErrorLine("Error: ", r)>>)
                ELSE IF Len(r.val) = 0
                THEN NextDriver(m, <<TryingLine(driver), Line("No devices found")>>)
                ELSE [m EXCEPT !.pc = "ask_scan", !.devices = r.val,
                               !.printed =
                                  <<TryingLine(driver), FoundLine(r.val),
                                    DeviceLine(r.val, 1),
                                    Line("\nWould you like to scan a document with this device? (y/n)")>>]
    /\ UNCHANGED callVars

\* the loop is over: Ok(())
Main_return ==
    /\ main.pc = "probe"
    /\ main.i > Len(MainDrivers(main.platform))
    /\ main' = [main EXCEPT !.pc = "returned", !.ret = "Ok", !.printed = <<>>]
    /\ UNCHANGED callVars

\* the answer to the question whether to scan
Main_ask_scan ==
    /\ main.pc = "ask_scan"
    /\ \E rd \in ReadLines :
          main' =
             IF ~rd.ok THEN ReadFailed(main)
             ELSE IF SaysYes(rd.line)
             THEN [main EXCEPT !.pc = "ask_source",
                               !.printed =
                                  <<<<Word("Scanning with "), Word(main.devices[1].name),
                                      Word("...")>>,
                                    Line("Choose paper source:"), Line("  1. Flatbed"),
                                    Line("  2. Feeder"), Line("  3. Duplex")>>]
             ELSE NextDriver(main, RestOfDevices(main.devices))
    /\ UNCHANGED callVars

\* the paper source chosen
Main_ask_source ==
    /\ main.pc = "ask_source"
    /\ \E rd \in ReadLines :
          main' =
             IF ~rd.ok THEN ReadFailed(main)
             ELSE [main EXCEPT !.pc = "scan",
                               !.paper_source = ChosenPaperSource(rd.line),
                               !.printed =
                                  <<<<Word("Using "),
                                      Word(PaperSource_debug(ChosenPaperSource(rd.line))),
                                      Word(" source")>>>>]
    /\ UNCHANGED callVars

\* client.scan().scan_to_images(&device.id, Some(driver), 300, Some(paper_source)),
\* up to the next read_line
Main_scan ==
    /\ main.pc = "scan"
    /\ \E out \in MainOutputs :
          LET driver == MainDrivers(main.platform)[main.i]
              r == Result_scan_to_images(helper_path, out)
              m == [main EXCEPT !.argv = Args_scan_to_images(main.devices[1].id, <<driver>>,
                                                             MainDpi, <<main.paper_source>>),
                                !.last_op = "scan_to_images", !.last = r]
          IN main' =
                IF r.tag = "Err"
                THEN NextDriver(m, <<ErrorLine("Error scanning: ", r)>>
                                   \o RestOfDevices(main.devices))
                ELSE [m EXCEPT !.pc = "ask_save", !.scan_result = r.val,
                               !.printed =
                                  <<<<Word("Scan complete! "),
                                      Word(U32ToString(Len(r.val.image_paths))),
                                      Word(" pages scanned")>>,
                                    <<Word("Images saved to: "), Word(r.val.temp_directory)>>,
                                    Line("Would you like to save processed copies of the images? (y/n): ")>>]
    /\ UNCHANGED callVars

\* the answer to the question whether to save
Main_ask_save ==
    /\ main.pc = "ask_save"
    /\ \E rd \in ReadLines :
          main' =
             IF ~rd.ok THEN ReadFailed(main)
             ELSE IF SaysYes(rd.line)
             THEN [main EXCEPT !.pc = "save",
                               !.printed =
                                  <<<<Word("Saving processed images to: "),
                                      Word(main.scan_result.temp_directory
                                           \o "/processed_images")>>>>]
             ELSE NextDriver(main, RestOfDevices(main.devices))
    /\ UNCHANGED callVars

\* client.save_as_jpeg(&scan_result.image_paths, &output_dir), and the rest of
\* the body of the loop
Main_save ==
    /\ main.pc = "save"
    /\ \E out \in MainOutputs :
          LET output_dir == main.scan_result.temp_directory \o "/processed_images"
              r == Result_save_as_jpeg(helper_path, out)
              m == [main EXCEPT !.argv = Args_save_as_jpeg(main.scan_result.image_paths,
                                                           output_dir),
                                !.last_op = "save_as_jpeg", !.last = r]
          IN main' =
                IF r.tag = "Err"
                THEN NextDriver(m, <<ErrorLine("Error saving images: ", r)>>
                                   \o RestOfDevices(main.devices))
                ELSE NextDriver(m, <<<<Word("Successfully saved "),
                                       Word(U32ToString(r.val.count)),
                                       Word(" images to "), Word(r.val.directory)>>>>
                                   \o RestOfDevices(main.devices))
    /\ UNCHANGED callVars

NextMain ==
    \/ Main_probe
    \/ Main_return
    \/ Main_ask_scan
    \/ Main_ask_source
    \/ Main_scan
    \/ Main_ask_save
    \/ Main_save

\* main is one thread; the helper process and the read of a line are taken to
\* end, so a step that can be taken is taken
SpecMain == InitMain /\ [][NextMain]_vars /\ WF_vars(NextMain)

(***************************************************************************)
(* The claims.                                                             *)
(***************************************************************************)
Returned == pc = "done"

\* the helper ran and exited with status 0
ExitZero == output.launched /\ ~output.status.signaled /\ output.status.code = 0

\* the helper ran and exited with a status other than 0
ExitNonZero == output.launched /\ ~output.status.signaled /\ output.status.code # 0

\* text is bytes with U+FFFD for every invalid byte and nothing else changed
IsLossyTextOf(text, bytes) ==
    /\ Len(text) = Len(bytes)
    /\ \A i \in 1..Len(bytes) :
          IF bytes[i].k = "byte" THEN text[i] = Replacement ELSE text[i] = bytes[i]

IsHelperExecution(r) ==
    r.tag = "Err" /\ r.ty = "Naps2Error" /\ r.variant = "HelperExecutionError"

IsHelperOutput(r) ==
    r.tag = "Err" /\ r.ty = "Naps2Error" /\ r.variant = "HelperOutputError"

\* The shapes of section 3 and 6 of the specification: which JSON values the
\* helper's contract declares for each operation.  A key of the shape occurs
\* once with a value of its type; other keys are allowed.
Members(v, k) == {i \in 1..Len(v.o) : v.o[i][1] = k}
HasString(v, k) ==
    Cardinality(Members(v, k)) = 1 /\ \A i \in Members(v, k) : v.o[i][2].t = "str"
IsStringList(v) == v.t = "arr" /\ \A i \in 1..Len(v.a) : v.a[i].t = "str"
HasStringList(v, k) ==
    Cardinality(Members(v, k)) = 1 /\ \A i \in Members(v, k) : IsStringList(v.o[i][2])
HasBool(v, k) ==
    Cardinality(Members(v, k)) = 1 /\ \A i \in Members(v, k) : v.o[i][2].t = "bool"
HasCount(v, k) ==
    /\ Cardinality(Members(v, k)) = 1
    /\ \A i \in Members(v, k) : v.o[i][2].t = "num" /\ v.o[i][2].n >= 0

DeclaredScannerDevice(v) ==
    v.t = "obj" /\ HasString(v, "Id") /\ HasString(v, "Name") /\ HasString(v, "Driver")
DeclaredScanResult(v) ==
    v.t = "obj" /\ HasStringList(v, "ImagePaths") /\ HasString(v, "TempDirectory")
DeclaredJpegSaveResult(v) ==
    /\ v.t = "obj"
    /\ HasBool(v, "Success") /\ HasString(v, "Directory")
    /\ HasStringList(v, "Files") /\ HasCount(v, "Count")
    /\ Members(v, "Error") = {} \/ HasString(v, "Error")
DeclaredOcrLanguage(v) ==
    v.t = "obj" /\ HasString(v, "Code") /\ HasString(v, "Name")

DeclaredShape(o, v) ==
    CASE o = "get_devices_with_driver" ->
            v.t = "arr" /\ \A i \in 1..Len(v.a) : DeclaredScannerDevice(v.a[i])
      [] o = "scan_to_images" -> DeclaredScanResult(v)
      [] o = "import_pdf" -> IsStringList(v)
      [] o = "save_as_jpeg" -> DeclaredJpegSaveResult(v)
      [] o = "get_languages" ->
            v.t = "arr" /\ \A i \in 1..Len(v.a) : DeclaredOcrLanguage(v.a[i])
      [] OTHER -> TRUE

\* stdout is JSON text of the shape declared for the operation o
WellFormedFor(o, bytes) ==
    \/ o \notin JsonOps
    \/ /\ \A i \in 1..Len(bytes) : bytes[i].k # "byte"
       /\ ParseJson(bytes).ok
       /\ DeclaredShape(o, ParseJson(bytes).v)

\* C1: when the helper ran and exited with a non-zero status, the operation
\* returns a HelperExecution error whose message is the stderr text (invalid
\* UTF-8 replaced), whatever stdout holds.
C1_NonZeroExitIsHelperExecution ==
    (Returned /\ ExitNonZero) =>
        IsHelperExecution(result) /\ IsLossyTextOf(result.msg, output.stderr)

\* C1 happens: a device listing exits with 1 while stdout holds a well-formed
\* device list, and stderr holds an invalid byte
C1_Witness ==
    /\ Returned /\ ExitNonZero
    /\ op = "get_devices_with_driver"
    /\ output.stdout = WriteJson(HelperDeviceList(1))
    /\ output.stderr = <<Word("error:"), BadByte, Ws("\n")>>
    /\ IsHelperExecution(result)

\* C2: when the helper exits with 0 and stdout is malformed or not of the
\* declared shape, every JSON-bearing operation returns a HelperOutput error.
C2_NonConformingIsHelperOutput ==
    (Returned /\ op \in JsonOps /\ ExitZero /\ ~WellFormedFor(op, output.stdout)) =>
        IsHelperOutput(result)

\* C3: when the helper exits with 0 and stdout is well-formed for the shape
\* declared for the operation, the operation returns Ok.
C3_WellFormedIsOk ==
    (Returned /\ ExitZero /\ WellFormedFor(op, output.stdout)) => result.tag = "Ok"

\* C4: when the helper could not be started, the operation returns a
\* HelperExecution error.
C4_LaunchFailureIsHelperExecution ==
    (Returned /\ ~output.launched) => IsHelperExecution(result)

\* the arguments the specification lists for the call in progress
OptionToken(x, token(_)) == IF x = <<>> THEN <<>> ELSE <<token(x[1])>>
ListedArgs ==
    CASE op = "get_devices_with_driver" ->
            <<"scan", "list-devices">> \o OptionToken(args.driver, Driver_to_string)
      [] op = "scan_to_images" ->
            <<"scan", "to-images", args.device_id>>
            \o OptionToken(args.driver, Driver_to_string)
            \o <<U32ToString(args.dpi)>>
            \o OptionToken(args.paper_source, PaperSource_to_string)
      [] op = "export_pdf" ->
            <<"pdf", "export", ToStringLossy(args.output_path)>> \o args.image_paths
      [] op = "import_pdf" -> <<"pdf", "import", ToStringLossy(args.pdf_path)>>
      [] op = "save_as_jpeg" -> <<"pdf", "jpeg", args.output_dir>> \o args.image_paths
      [] op = "get_languages" -> <<"ocr", "languages">>
      [] op = "recognize" ->
            <<"ocr", "recognize", ToStringLossy(args.image_path), args.language>>

\* how many arguments follow the two subcommand tokens
ListedCount ==
    CASE op = "get_devices_with_driver" -> Len(args.driver)
      [] op = "scan_to_images" -> 2 + Len(args.driver) + Len(args.paper_source)
      [] op = "export_pdf" -> 1 + Len(args.image_paths)
      [] op = "import_pdf" -> 1
      [] op = "save_as_jpeg" -> 1 + Len(args.image_paths)
      [] op = "get_languages" -> 0
      [] op = "recognize" -> 2

ScenarioScan ==
    /\ op = "scan_to_images"
    /\ args = [device_id |-> "dev1", driver |-> <<"Driver::Sane">>, dpi |-> 300,
               paper_source |-> <<"PaperSource::Feeder">>]

\* C5: the arguments given to the helper are the two subcommand tokens and
\* then the positional values in the listed order; an absent optional value
\* adds no argument and no empty argument; a path that is a string is passed
\* as it is; the scan scenario builds scan to-images dev1 Sane 300 Feeder.
C5_ArgumentVector ==
    pc # "idle" =>
        /\ argv = ListedArgs
        /\ Len(argv) = 2 + ListedCount
        /\ \A i \in 1..Len(argv) : argv[i] # ""
        /\ (op = "export_pdf" /\ args.output_path # NonUtf8Path) =>
                argv[3] = args.output_path
        /\ ScenarioScan => argv = <<"scan", "to-images", "dev1", "Sane", "300", "Feeder">>

\* C5 happens: the scan scenario has built its Command
C5_Witness == pc = "spawn" /\ ScenarioScan /\ Len(argv) = 6

\* C6: the helper is started at most once per call and exactly once when the
\* call has returned; a call that failed to start the helper, saw a failing
\* status or could not parse stdout returns an error and no value.
C6_OneAttempt ==
    /\ spawns <= 1
    /\ pc \in {"idle", "spawn"} => spawns = 0
    /\ pc \in {"check", "done"} => spawns = 1
    /\ (Returned /\ (~output.launched \/ ~ExitZero)) =>
            result.tag = "Err" /\ result.val = <<>>
    /\ (Returned /\ op \in JsonOps /\ ~ParseJson(FromUtf8Lossy(output.stdout)).ok) =>
            result.tag = "Err" /\ result.val = <<>>

\* C6 happens: an export has returned after the helper exited with 1 and had
\* written to stdout
C6_Witness ==
    /\ Returned /\ op = "export_pdf" /\ ExitNonZero
    /\ output.stdout # <<>>
    /\ spawns = 1 /\ result.tag = "Err"

\* C7: every error an operation returns is a HelperExecution or a HelperOutput
\* error, and save_as_jpeg returns a JpegSaveResult with success false as Ok.
C7_ClosedTaxonomy ==
    /\ (Returned /\ result.tag = "Err") =>
            IsHelperExecution(result) \/ IsHelperOutput(result)
    /\ (Returned /\ op = "save_as_jpeg" /\ ExitZero
            /\ output.stdout = WriteJson(HelperJpegFailed)) =>
            result.tag = "Ok" /\ result.val.success = FALSE

\* C8: recognize returns the decoded stdout as it is whenever the helper exits
\* with 0, and never a HelperOutput error.
C8_RecognizeIsRawText ==
    /\ (Returned /\ op = "recognize" /\ ExitZero) =>
            result.tag = "Ok" /\ IsLossyTextOf(result.val, output.stdout)
    /\ (Returned /\ op = "recognize") => ~IsHelperOutput(result)

\* C8 happens: recognize returns the text Hello World, which is no JSON
C8_Witness ==
    /\ Returned /\ op = "recognize" /\ ExitZero
    /\ output.stdout = <<Word("Hello"), Ws(" "), Word("World")>>
    /\ result.tag = "Ok" /\ result.val = output.stdout

\* the JSON keys of a struct
KeysOf(fields) == {fields[i].key : i \in 1..Len(fields)}

\* C9: the JSON keys are the capitalized tokens: get_languages, given exit
\* status 0 and the stdout [{"Code":"eng","Name":"English"}], returns the one
\* language eng, English.
C9_CapitalizedKeys ==
    /\ KeysOf(ScannerDeviceFields) = {"Id", "Name", "Driver"}
    /\ KeysOf(ScanResultFields) = {"ImagePaths", "TempDirectory"}
    /\ KeysOf(JpegSaveResultFields) = {"Success", "Directory", "Files", "Count", "Error"}
    /\ (Returned /\ op = "get_languages" /\ ExitZero
            /\ output.stdout = <<LBracket, LBrace, TStr("Code"), Colon, TStr("eng"), Comma,
                                 TStr("Name"), Colon, TStr("English"), RBrace, RBracket>>) =>
            result.tag = "Ok" /\ result.val = <<[code |-> "eng", name |-> "English"]>>

\* C10: a value of a response type, encoded and decoded back, is the value it
\* was, field for field; an absent error comes back absent, and its text has
\* no Error key; a present error comes back as the same string.
C10_RoundTrip ==
    codec.stage = "decoded" =>
        /\ codec.back.ok
        /\ \A f \in DOMAIN codec.value : codec.back.v[f] = codec.value[f]
        /\ DOMAIN codec.back.v = DOMAIN codec.value
        /\ (codec.ty = "JpegSaveResult" /\ codec.value.error = <<>>) =>
                /\ codec.back.v.error = <<>>
                /\ \A i \in 1..Len(codec.text) : codec.text[i] # TStr("Error")

\* C10 happens: a JpegSaveResult without error, and one with an error, have
\* gone through both conversions
C10_Witness ==
    /\ codec.stage = "decoded" /\ codec.ty = "JpegSaveResult"
    /\ codec.value.error = <<>> /\ codec.value.files # <<>>
    /\ codec.back.ok

\* to_string is one-to-one on the variants S and gives no empty token
OneToOneTokens(S, to_string_of(_)) ==
    /\ \A x \in S : to_string_of(x) # ""
    /\ \A x, y \in S : to_string_of(x) = to_string_of(y) => x = y

\* where the driver token and the paper-source token of the call in progress
\* stand in argv
DriverTokenAt == IF op = "get_devices_with_driver" THEN 3 ELSE 4
PaperSourceTokenAt == 5 + Len(args.driver)

\* C11: every Driver variant and every PaperSource variant has one fixed token
\* that is not empty, and no two variants of an enum share a token: the token
\* a call passes to the helper names the variant the caller gave and no other.
C11_EnumTokens ==
    /\ OneToOneTokens(Drivers, Driver_to_string)
    /\ OneToOneTokens(PaperSources, PaperSource_to_string)
    /\ (pc # "idle" /\ op \in {"get_devices_with_driver", "scan_to_images"}
            /\ args.driver # <<>>) =>
            /\ argv[DriverTokenAt] # ""
            /\ {d \in Drivers : Driver_to_string(d) = argv[DriverTokenAt]}
                    = {args.driver[1]}
    /\ (pc # "idle" /\ op = "scan_to_images" /\ args.paper_source # <<>>) =>
            /\ argv[PaperSourceTokenAt] # ""
            /\ {x \in PaperSources : PaperSource_to_string(x) = argv[PaperSourceTokenAt]}
                    = {args.paper_source[1]}

\* C11 happens: a scan with the Wia driver and the Duplex source has built its
\* Command
C11_Witness ==
    /\ pc = "spawn" /\ op = "scan_to_images"
    /\ args.driver = <<"Driver::Wia">>
    /\ args.paper_source = <<"PaperSource::Duplex">>
    /\ argv[4] = "Wia" /\ argv[6] = "Duplex"

Range(f) == {f[n] : n \in DOMAIN f}

IsPrefix(p, q) == Len(p) <= Len(q) /\ p = SubSeq(q, 1, Len(p))

\* what main writes before the message of a failed operation
ErrorPrefix(operation) ==
    CASE operation = "get_devices_with_driver" -> "Error: "
      [] operation = "scan_to_images" -> "Error scanning: "
      [] operation = "save_as_jpeg" -> "Error saving images: "

MainReturned == main.pc = "returned"

AllProbed == main.probed = MainDrivers(main.platform)

\* a failed operation is printed and the loop is at the next driver; main
\* never returns the error of an operation
FailureIsPrintedAndPassed ==
    main.last.tag = "Err" =>
       /\ main.ret # "Err"
       /\ ~MainReturned =>
             /\ main.pc = "probe"
             /\ ErrorLine(ErrorPrefix(main.last_op), main.last) \in Range(main.printed)

\* the drivers are probed in the order of the list, none twice, none skipped
ProbedInListOrder ==
    /\ IsPrefix(main.probed, MainDrivers(main.platform))
    /\ ~MainReturned => Len(main.probed) = (IF main.pc = "probe" THEN main.i - 1 ELSE main.i)

====
